---- MODULE Spec2Model ----
(***************************************************************************)
(* Model of the address checker (src/main.rs): main reads a tab-delimited  *)
(* file row by row, asks the address API about each row within the limit,  *)
(* and writes the row back with one more column, adresse_valide.           *)
(*                                                                         *)
(* A row is a sequence of fields (strings).  The output is the sequence of *)
(* rows handed to the csv writer: `buf` holds the rows still in the        *)
(* writer's buffer, `disk` the rows already in the output file.            *)
(* A score is kept in hundredths (0.7 is 70).                              *)
(* Not modelled: I/O errors on the files, blank lines (the csv reader      *)
(* skips them), quoting of fields.                                         *)
(***************************************************************************)
EXTENDS Integers, Sequences, FiniteSets, TLC

VARIABLES
    input,        \* the data rows of the input file, header excluded
    limit,        \* args.lines_to_check
    pc,           \* position of main
    rdPos,        \* number of data rows pulled from the reader
    i,            \* the index enumerate() gave to the current row
    cur,          \* the decoded InputRecord of the current row
    resp,         \* what the API call of the current row came back with
    ok,           \* the value verifier_adresse_api returned for the current row
    headerState,  \* the csv writer's header state (has_headers)
    buf,          \* rows written to the writer and not yet flushed
    disk,         \* rows in the output file
    pbLen,        \* the progress bar's length
    pbPos,        \* the progress bar's position
    events,       \* log of what main did: <<kind, row index>>
    calls,        \* log of the API calls: the query sent and the value returned
    exit          \* the process exit status, -1 while main runs

vars == <<input, limit, pc, rdPos, i, cur, resp, ok, headerState, buf, disk,
          pbLen, pbPos, events, calls, exit>>

----------------------------------------------------------------------------
(* Bounds *)

MaxRows == 3

MaxLimit == 3

----------------------------------------------------------------------------
(* Records *)

NumInputFields == 5

ScoreThreshold == 70

GoodRows ==
    { <<"Jean Dupont", "1 Rue de la Paix", "75002", "Paris", "0600000000">>,
      <<" anne MARTIN ", "  12 av. Foch", "01000", " BOURG en bresse ", "">> }

BadRows == { <<"Luc", "3 rue Verte", "69001", "Lyon">> }

RowSet == GoodRows \cup BadRows

NoRecord ==
    [nom |-> "", adresse |-> "", cp |-> "", ville |-> "", contact |-> ""]

\* rdr.deserialize::<InputRecord>() on one row: a row that has not the five
\* columns of the header is an error; the fields are taken as they are.
InputRecord(row) ==
    IF Len(row) = NumInputFields
    THEN [err |-> FALSE,
          rec |-> [nom |-> row[1], adresse |-> row[2], cp |-> row[3],
                   ville |-> row[4], contact |-> row[5]]]
    ELSE [err |-> TRUE, rec |-> NoRecord]

\* serde's rendering of a bool in a csv field
BoolField(b) == IF b THEN "true" ELSE "false"

\* Variant: cp and ville change places
OutputRecordMutFields(rec, valid) ==
    <<rec.nom, rec.adresse, rec.ville, rec.cp, rec.contact, BoolField(valid)>>

\* Variant: the flag does not follow the API's answer
OutputRecordMutFlag(rec, valid) ==
    <<rec.nom, rec.adresse, rec.cp, rec.ville, rec.contact, BoolField(TRUE)>>

\* The row wtr.serialize(output) writes for OutputRecord { ..input, adresse_valide }
OutputRecord(rec, valid) ==
    <<rec.nom, rec.adresse, rec.cp, rec.ville, rec.contact, BoolField(valid)>>

HeaderRow == <<"nom", "adresse", "cp", "ville", "contact", "adresse_valide">>

\* The header the csv writer derives from the field names of OutputRecord
StructHeader == <<"nom", "adresse", "cp", "ville", "contact", "adresse_valide">>

\* format!("{adresse}, {cp} {ville}")
Query(rec) == <<rec.adresse, ", ", rec.cp, " ", rec.ville>>

----------------------------------------------------------------------------
(* The API's answers *)

Scores == {40, 69, 70, 71, 95}

ScoreVals ==
    {[t |-> k, v |-> 0] : k \in {"absent", "string", "null"}}
        \cup {[t |-> "number", v |-> s] : s \in Scores}

NoScore == [t |-> "absent", v |-> 0]

Features ==
    {[properties |-> "absent", score |-> NoScore]}
        \cup {[properties |-> "object", score |-> s] : s \in ScoreVals}

SecondFeatures ==
    {[properties |-> "object", score |-> [t |-> "number", v |-> s]] : s \in {40, 95}}

FeatureLists ==
    {[t |-> k, items |-> <<>>] : k \in {"absent", "not_array", "array"}}
        \cup {[t |-> "array", items |-> <<f>>] : f \in Features}
        \cup {[t |-> "array", items |-> <<f, g>>] : f \in Features, g \in SecondFeatures}

NoFeatures == [t |-> "absent", items |-> <<>>]

Bodies ==
    {[t |-> "unparsable", features |-> NoFeatures]}
        \cup {[t |-> "json", features |-> fl] : fl \in FeatureLists}

NoBody == [t |-> "unparsable", features |-> NoFeatures]

Statuses == {200, 404, 500}

Responses ==
    {[recv |-> k, status |-> 0, body |-> NoBody] : k \in {"network_failure", "timeout"}}
        \cup {[recv |-> "response", status |-> s, body |-> b] : s \in Statuses, b \in Bodies}

NoResponse == [recv |-> "none", status |-> 0, body |-> NoBody]

\* Variant: the threshold is exclusive
verifier_adresse_api_strict(r) ==
    IF r.recv = "response" /\ r.body.t = "json"
       /\ r.body.features.t = "array" /\ Len(r.body.features.items) >= 1
    THEN LET first == r.body.features.items[1]
         IN  first.properties = "object" /\ first.score.t = "number"
             /\ first.score.v > ScoreThreshold
    ELSE FALSE

\* verifier_adresse_api, as a function of what the request came back with
verifier_adresse_api(r) ==
    IF r.recv = "response"                                \* if let Ok(resp) = send()
    THEN IF r.body.t = "json"                             \* if let Ok(json) = resp.json()
         THEN IF r.body.features.t # "absent"             \* json.get("features")
              THEN IF r.body.features.t = "array"         \* features.get(0)
                      /\ Len(r.body.features.items) > 0
                   THEN LET first == r.body.features.items[1]
                        IN  IF first.properties = "object"    \* get("properties")
                               /\ first.score.t = "number"   \* get("score"), as_f64()
                            THEN first.score.v >= ScoreThreshold
                            ELSE FALSE
                   ELSE FALSE
              ELSE FALSE
         ELSE FALSE
    ELSE FALSE

----------------------------------------------------------------------------
(* main *)

Inputs == UNION {[1..n -> RowSet] : n \in 0..MaxRows}

Init ==
    /\ input \in Inputs
    /\ limit \in 0..MaxLimit
    /\ pc = "start"
    /\ rdPos = 0
    /\ i = 0
    /\ cur = NoRecord
    /\ resp = NoResponse
    /\ ok = FALSE
    /\ headerState = "Write"
    /\ buf = <<>>
    /\ disk = <<>>
    /\ pbLen = 0
    /\ pbPos = 0
    /\ events = <<>>
    /\ calls = <<>>
    /\ exit = -1

\* wtr.write_record(&[...]) and ProgressBar::new(limit)
WriteHeader ==
    /\ pc = "start"
    /\ buf' = Append(buf, HeaderRow)
    /\ pbLen' = limit
    /\ pc' = "next"
    /\ UNCHANGED <<input, limit, rdPos, i, cur, resp, ok, headerState, disk,
                   pbPos, events, calls, exit>>

\* Variant: the buffered rows are lost on the early return
DropWriterNoFlush == disk

\* What dropping the writer on the early return leaves in the file: the
\* csv writer flushes its buffer when dropped
DropWriter == disk \o buf

\* for (i, result) in rdr.deserialize().enumerate(): the row decodes
DecodeOk ==
    /\ pc = "next"
    /\ rdPos < Len(input)
    /\ ~InputRecord(input[rdPos + 1]).err
    /\ cur' = InputRecord(input[rdPos + 1]).rec
    /\ i' = rdPos
    /\ rdPos' = rdPos + 1
    /\ pc' = "limit"
    /\ UNCHANGED <<input, limit, resp, ok, headerState, buf, disk, pbLen, pbPos,
                   events, calls, exit>>

\* let input = result?; on a row that does not decode: main returns the error
DecodeErr ==
    /\ pc = "next"
    /\ rdPos < Len(input)
    /\ InputRecord(input[rdPos + 1]).err
    /\ i' = rdPos
    /\ rdPos' = rdPos + 1
    /\ disk' = DropWriter
    /\ buf' = <<>>
    /\ pc' = "Aborted"
    /\ exit' = 1
    /\ UNCHANGED <<input, limit, cur, resp, ok, headerState, pbLen, pbPos, events,
                   calls>>

\* the iterator is exhausted
EndOfInput ==
    /\ pc = "next"
    /\ rdPos = Len(input)
    /\ pc' = "finish"
    /\ UNCHANGED <<input, limit, rdPos, i, cur, resp, ok, headerState, buf, disk,
                   pbLen, pbPos, events, calls, exit>>

\* Variant: one row too many
LimitReachedOffByOne == i > limit

\* Variant: the limit is not applied
LimitReachedNever == FALSE

LimitReached == i >= limit

\* if i >= args.lines_to_check { break; }
LimitBreak ==
    /\ pc = "limit"
    /\ LimitReached
    /\ pc' = "finish"
    /\ UNCHANGED <<input, limit, rdPos, i, cur, resp, ok, headerState, buf, disk,
                   pbLen, pbPos, events, calls, exit>>

\* let ok = verifier_adresse_api(..)
CallApi ==
    /\ pc = "limit"
    /\ ~LimitReached
    /\ \E r \in Responses :
          /\ resp' = r
          /\ ok' = verifier_adresse_api(r)
          /\ calls' = Append(calls, [query |-> Query(cur),
                                   ret |-> verifier_adresse_api(r)])
    /\ events' = Append(events, <<"query", i>>)
    /\ pc' = "queried"
    /\ UNCHANGED <<input, limit, rdPos, i, cur, headerState, buf, disk, pbLen,
                   pbPos, exit>>

\* Variant: no pause after the last processed row
SleepBetweenOnly ==
    /\ pc = "queried"
    /\ events' = IF i + 1 < limit /\ i + 1 < Len(input)
                 THEN Append(events, <<"sleep", i>>)
                 ELSE events
    /\ pc' = "slept"
    /\ UNCHANGED <<input, limit, rdPos, i, cur, resp, ok, headerState, buf, disk,
                   pbLen, pbPos, calls, exit>>

\* std::thread::sleep(33 ms)
Sleep ==
    /\ pc = "queried"
    /\ events' = Append(events, <<"sleep", i>>)
    /\ pc' = "slept"
    /\ UNCHANGED <<input, limit, rdPos, i, cur, resp, ok, headerState, buf, disk,
                   pbLen, pbPos, calls, exit>>

\* The rows one wtr.serialize(output) adds: with has_headers(true) the first
\* serialize of a struct writes the struct's header before the record.
SerializeRows ==
    (IF headerState = "Write" THEN <<StructHeader>> ELSE <<>>)
        \o <<OutputRecord(cur, ok)>>

\* wtr.serialize(output)
Serialize ==
    /\ pc = "slept"
    /\ buf' = buf \o SerializeRows
    /\ headerState' = "DidWrite"
    /\ events' = Append(events, <<"write", i>>)
    /\ pc' = "written"
    /\ UNCHANGED <<input, limit, rdPos, i, cur, resp, ok, disk, pbLen, pbPos,
                   calls, exit>>

\* pb.inc(1), end of the loop body
ProgressInc ==
    /\ pc = "written"
    /\ pbPos' = pbPos + 1
    /\ events' = Append(events, <<"inc", i>>)
    /\ resp' = NoResponse
    /\ pc' = "next"
    /\ UNCHANGED <<input, limit, rdPos, i, cur, ok, headerState, buf, disk, pbLen,
                   calls, exit>>

\* pb.finish_with_message, wtr.flush(), Ok(())
Finish ==
    /\ pc = "finish"
    /\ disk' = disk \o buf
    /\ buf' = <<>>
    /\ pc' = "Completed"
    /\ exit' = 0
    /\ UNCHANGED <<input, limit, rdPos, i, cur, resp, ok, headerState, pbLen,
                   pbPos, events, calls>>

Next ==
    \/ WriteHeader
    \/ DecodeOk
    \/ DecodeErr
    \/ EndOfInput
    \/ LimitBreak
    \/ CallApi
    \/ Sleep
    \/ Serialize
    \/ ProgressInc
    \/ Finish

Spec == Init /\ [][Next]_vars

\* main is one thread that runs until it returns; a request that gets no
\* answer ends with the client's timeout.
FairSpec == Spec /\ WF_vars(Next)

----------------------------------------------------------------------------
(* Vocabulary of the properties *)

Min(a, b) == IF a <= b THEN a ELSE b

\* Everything handed to the writer so far, in order
Output == disk \o buf

IsDataRow(row) == row # HeaderRow

DataRows(rows) == SelectSeq(rows, IsDataRow)

HeaderCount(rows) == Len(rows) - Len(DataRows(rows))

Terminated == pc \in {"Completed", "Aborted"}

Decodes(k) == Len(input[k]) = 5

\* The number of rows main is to process: min(L, N)
Wanted == Min(limit, Len(input))

FirstFive(row) == SubSeq(row, 1, 5)

EventsOf(kind) == SelectSeq(events, LAMBDA e : e[1] = kind)

\* The current row's API call has returned and its row is not yet counted
HasAnswer == pc \in {"queried", "slept", "written"}

----------------------------------------------------------------------------
(* C1 *)

\* C1 as stated: when main has ended, the output file holds exactly
\* min(L, N) data rows, and data row k is input row k.
C1_AsStated ==
    Terminated =>
        /\ Len(DataRows(disk)) = Wanted
        /\ \A k \in 1..Len(DataRows(disk)) :
              FirstFive(DataRows(disk)[k]) = input[k]

\* C1, amended: for an input whose first min(L, N) rows all decode, when main
\* has ended the output file holds exactly min(L, N) data rows, and data row
\* k is input row k, for every k (order kept, nothing skipped or repeated).
C1_RowCount ==
    (Terminated /\ \A k \in 1..Wanted : Decodes(k)) =>
        /\ Len(DataRows(disk)) = Wanted
        /\ \A k \in 1..Wanted : FirstFive(DataRows(disk)[k]) = input[k]

\* A run with more rows than the limit, two of them written, distinct
C1_Witness ==
    /\ pc = "Completed"
    /\ limit = 2
    /\ Len(input) = 3
    /\ input[1] # input[2]
    /\ Len(DataRows(disk)) = 2

----------------------------------------------------------------------------
(* C2 *)

\* The claim's condition on what the request came back with
C2_Accepted(r) ==
    /\ r.recv = "response"
    /\ r.body.t = "json"
    /\ r.body.features.t = "array"
    /\ r.body.features.items # <<>>
    /\ r.body.features.items[1].properties = "object"
    /\ r.body.features.items[1].score.t = "number"
    /\ r.body.features.items[1].score.v >= 70

\* C2: verifier_adresse_api returns true exactly when a response came, its
\* body parsed as JSON, features[0] exists and its properties.score is a
\* number >= 0.7 (0.7 included); it returns false for a lower score, no
\* features field, an empty features array, a missing or non-numeric score,
\* an unparsable body, a network failure and a timeout.
C2_Decision ==
    HasAnswer =>
        /\ ok <=> C2_Accepted(resp)
        /\ resp.recv \in {"network_failure", "timeout"} => ~ok
        /\ resp.body.t = "unparsable" => ~ok
        /\ resp.body.features.t = "absent" => ~ok
        /\ resp.body.features.items = <<>> => ~ok
        /\ resp.body.features.items # <<>> =>
              LET score == resp.body.features.items[1].score
              IN  /\ score.t # "number" => ~ok
                  /\ (score.t = "number" /\ score.v < 70) => ~ok

\* A score of exactly 0.7 has been accepted
C2_Witness ==
    /\ pc = "queried"
    /\ resp.recv = "response"
    /\ resp.body.features.items # <<>>
    /\ resp.body.features.items[1].score = [t |-> "number", v |-> 70]
    /\ ok

----------------------------------------------------------------------------
(* C3 *)

SuccessStatus(code) == code >= 200 /\ code < 300

\* C3 as stated: verifier_adresse_api returns false whenever the service
\* answers with a non-success status code, whatever the body holds.
C3_NonSuccessIsFalse ==
    (HasAnswer /\ resp.recv = "response" /\ ~SuccessStatus(resp.status)) => ~ok

----------------------------------------------------------------------------
(* C4 *)

\* C4 as stated: the header row is in the output exactly once and before any
\* data row: the output is one header row followed only by data rows.
C4_HeaderOnce ==
    /\ pc # "start" => HeaderCount(Output) = 1
    /\ Output # <<>> =>
          /\ Output[1] = HeaderRow
          /\ \A k \in 2..Len(Output) : IsDataRow(Output[k])

----------------------------------------------------------------------------
(* C5 *)

\* C5: every emitted row k carries the five fields of input row k, same
\* order and same values, followed by one column only, adresse_valide, which
\* holds the boolean the API call made for row k returned.
C5_RowVerbatim ==
    /\ Len(DataRows(Output)) <= Len(calls)
    /\ \A k \in 1..Len(DataRows(Output)) :
          LET row == DataRows(Output)[k]
          IN  /\ Len(row) = 6
              /\ \A f \in 1..5 : row[f] = input[k][f]
              /\ row[6] = (IF calls[k].ret THEN "true" ELSE "false")

\* Two rows emitted, one found and one not, one of them with blanks and
\* capitals in its fields
C5_Witness ==
    /\ Len(DataRows(Output)) = 2
    /\ calls[1].ret /\ ~calls[2].ret
    /\ input[2][1] = " anne MARTIN "
    /\ input[1][4] = "Paris"

----------------------------------------------------------------------------
(* C6 *)

\* C6: the API is called exactly once for each processed record, in order,
\* and for no other: never more than limit calls, no call and no write for a
\* row at index >= limit, exactly min(L, N) calls in a completed run, and one
\* call per row even when two rows carry the same address.
C6_OneCallPerRecord ==
    /\ Len(calls) = Len(EventsOf("query"))
    /\ Len(calls) <= limit
    /\ \A k \in 1..Len(calls) :
          /\ EventsOf("query")[k] = <<"query", k - 1>>
          /\ k - 1 < limit
          /\ calls[k].query = <<input[k][2], ", ", input[k][3], " ", input[k][4]>>
    /\ \A k \in 1..Len(EventsOf("write")) :
          /\ EventsOf("write")[k] = <<"write", k - 1>>
          /\ k - 1 < limit
    /\ Len(DataRows(Output)) = Len(EventsOf("write"))
    /\ Len(EventsOf("write")) <= Len(calls)
    /\ pc = "Completed" => Len(calls) = Wanted

\* A completed run cut at the limit whose first two rows are the same
C6_Witness ==
    /\ pc = "Completed"
    /\ limit = 2
    /\ Len(input) = 3
    /\ input[1] = input[2]
    /\ Len(calls) = 2
    /\ calls[1].query = calls[2].query

----------------------------------------------------------------------------
(* C7 *)

C7_AtAbort ==
    (pc = "Aborted" /\ i < limit) =>
        /\ ~Decodes(i + 1)
        /\ exit = 1
        /\ rdPos = i + 1
        /\ buf = <<>>
        /\ Len(DataRows(disk)) = i
        /\ \A k \in 1..i : FirstFive(DataRows(disk)[k]) = input[k]
        /\ Len(EventsOf("query")) = i
        /\ Len(EventsOf("write")) = i
        /\ \A e \in 1..Len(events) : events[e][2] < i

C7_Step ==
    /\ (pc = "next" /\ rdPos < Len(input) /\ rdPos < limit /\ ~Decodes(rdPos + 1))
          => pc' = "Aborted"
    /\ pc # "Aborted"

\* C7: when the row at index k < limit does not decode the run is Aborted at
\* once: rows 0..k-1 have been queried and written and are in the output
\* file, row k is neither queried nor written, no later row is read, queried
\* or written, and nothing happens after the abort.
C7_FailFast == []C7_AtAbort /\ [][C7_Step]_vars

\* Aborted at the second row, one row in the file, a good row left unread
C7_Witness ==
    /\ pc = "Aborted"
    /\ i = 1
    /\ limit >= 2
    /\ Len(input) = 3
    /\ Decodes(3)
    /\ Len(DataRows(disk)) = 1

----------------------------------------------------------------------------
(* C8 *)

\* A query that failed: network error, timeout, malformed response, no
\* match, or a match of low confidence
QueryFailed(r) ==
    \/ r.recv \in {"network_failure", "timeout"}
    \/ r.body.t = "unparsable"
    \/ r.body.features.t # "array"
    \/ r.body.features.items = <<>>
    \/ r.body.features.items[1].score.t # "number"
    \/ r.body.features.items[1].score.v < 70

C8_State ==
    /\ (HasAnswer /\ QueryFailed(resp)) => exit = -1
    /\ (pc = "written" /\ QueryFailed(resp)) =>
          Output[Len(Output)] = input[i + 1] \o <<"false">>
    /\ pc = "Aborted" => ~Decodes(rdPos)
    /\ pc = "Completed" => exit = 0

C8_Step == (HasAnswer /\ QueryFailed(resp)) => pc' \in {"slept", "written", "next"}

C8_Ends ==
    (\A k \in 1..Len(input) : Decodes(k)) =>
        <>(pc = "Completed" /\ exit = 0 /\ Len(DataRows(disk)) = Wanted)

\* C8: a failed query never aborts the run: the record is written with
\* adresse_valide = false, the records after it are processed, and a run
\* whose rows all decode ends Completed with exit status 0 whatever the
\* number of false results.
C8_NonFatal == []C8_State /\ [][C8_Step]_vars /\ C8_Ends

\* Completed after two rows not found and then one found
C8_Witness ==
    /\ pc = "Completed"
    /\ exit = 0
    /\ Len(calls) = 3
    /\ ~calls[1].ret /\ ~calls[2].ret /\ calls[3].ret
    /\ Len(DataRows(disk)) = 3

----------------------------------------------------------------------------
(* C9 *)

\* C9 as stated: when the rows at index < limit all decode the run ends
\* Completed(min(L, N)) with exit status 0, whatever the rows at index
\* >= limit hold.
C9_AbortOnlyWithinLimit ==
    (\A k \in 1..Wanted : Decodes(k)) =>
        /\ pc # "Aborted"
        /\ Terminated =>
              (pc = "Completed" /\ exit = 0 /\ Len(DataRows(disk)) = Wanted)

----------------------------------------------------------------------------
(* C10 *)

StepKinds == <<"query", "sleep", "write", "inc">>

====
